---- MODULE Spec2Model ----
(***************************************************************************)
(* State-machine model of the service-provider marketplace (src/app.py):   *)
(* the ZIP eligibility check is_zip_allowed with the admin ZIP management  *)
(* handlers that maintain its table, the provider lead actions, and the     *)
(* provider accounts with their service areas and the eligibility engine    *)
(* that reads them, and the services table with its search.                 *)
(*                                                                         *)
(* Text is modelled as a sequence of characters; "U+0663" stands for the    *)
(* single character ARABIC-INDIC DIGIT THREE, and a run of characters that *)
(* holds no whitespace may be written as one element ("WEEKLY]");           *)
(* "U+00C9" and "U+00E9" stand for the letters E WITH ACUTE, capital and    *)
(* small.                                                                   *)
(* A float is modelled as an exact rational [num, den] or as NaN.          *)
(* Timestamps are whole days.                                              *)
(***************************************************************************)
EXTENDS Integers, Sequences, FiniteSets, TLC

VARIABLES
    zips,       \* table zips: set of rows [zip, radius_miles], zip is the key
    geo_dist,   \* module-level distance calculator: "None" or "GeoDistance"
    call,       \* the last is_zip_allowed call: its input, what it read, its outcome
    leads,      \* table leads: sequence of rows, the row with id i at position i
    now,        \* the clock, in days
    origin,     \* history: origin[i] tells which request inserted lead i, and from which lead
    doneRec,    \* history: ids of the leads completed while their recurring flag was set
    nreq,       \* history: the number of requests served so far
    providers,  \* table providers: set of rows [id, email, active, base_zip], id is the key
    provider_seq,      \* the AUTOINCREMENT counter of providers
    profile_base_zip,  \* column base_zip of the one row of table profile
    provider_zips,     \* table provider_zips: set of rows [id, provider_id, zip_code, radius_miles]
    area_seq,   \* the AUTOINCREMENT counter of provider_zips
    elig,       \* the last eligibleProviders call: its input, the provider answers, its result
    inflight,   \* the service-area add requests in progress, one per worker thread
    services,   \* table services: set of rows [id, title, description, active, provider_id, created_at]
    service_seq,       \* the AUTOINCREMENT counter of services
    srch,       \* the last GET /search request: its query, the statements it ran, its result
    products,   \* table products: set of rows [id, provider_id, active]
    product_seq \* the AUTOINCREMENT counter of products

zipvars == <<zips, geo_dist, call>>
leadvars == <<leads, now, origin, doneRec, nreq>>
provvars ==
    <<providers, provider_seq, profile_base_zip, provider_zips, area_seq, elig, inflight>>
srchvars == <<services, service_seq, srch>>
vars == <<zips, geo_dist, call, leads, now, origin, doneRec, nreq,
          providers, provider_seq, profile_base_zip, provider_zips, area_seq, elig, inflight,
          services, service_seq, srch, products, product_seq>>

\* Model bound: the number of rows the zips table may hold
MaxZipRows == 2

\* Model bound: the number of rows the leads table may hold
MaxLeads == 3

\* Model bound: the last day the clock reaches
MaxDay == 1

\* Model bound: the number of lead requests of a run
MaxRequests == 4

\* Model bound: the number of provider accounts ever registered
MaxProviders == 2

\* Model bound: the number of service areas ever added
MaxAreaRows == 6

\* Model bound: the number of provider and eligibility requests of a run
MaxProviderRequests == 6

\* Model bound: the number of services ever added
MaxServices == 2

\* Model bound: the number of products ever added
MaxProducts == 1

----------------------------------------------------------------------------
(* Text *)

AsciiDigits == {"0", "1", "2", "3", "4", "5", "6", "7", "8", "9"}

\* Decimal digits outside ASCII (Unicode category Nd)
NonAsciiDigits == {"U+0663"}

Whitespace == {" "}

\* What \d matches in a Python 3 str pattern: any Unicode decimal digit
MatchesBackslashD(c) == c \in AsciiDigits \cup NonAsciiDigits

\* re.fullmatch(r"\d{5}", s) is not None
FullMatchD5(s) == Len(s) = 5 /\ \A i \in 1..5 : MatchesBackslashD(s[i])

RECURSIVE LStrip(_)
LStrip(s) == IF s # <<>> /\ Head(s) \in Whitespace THEN LStrip(Tail(s)) ELSE s

RECURSIVE RStrip(_)
RStrip(s) ==
    IF s # <<>> /\ s[Len(s)] \in Whitespace THEN RStrip(SubSeq(s, 1, Len(s) - 1)) ELSE s

\* str.strip()
Strip(s) == RStrip(LStrip(s))

\* An optional str argument: Python None or a str
PyNone == [none |-> TRUE, s |-> <<>>]
PyStr(s) == [none |-> FALSE, s |-> s]

\* "not x" for an optional str: None and "" are falsy
Falsy(x) == x.none \/ x.s = <<>>

----------------------------------------------------------------------------
(* Services and their search (GET /search) *)

AsciiUpperLetters == {"F", "L", "Y"}

\* Capital letter -> small letter, as str.lower() maps them
LowerCaseOf == ("F" :> "f") @@ ("L" :> "l") @@ ("Y" :> "y") @@ ("U+00C9" :> "U+00E9")

\* What \w matches in a Python 3 str pattern: letters, decimal digits and the underscore
MatchesBackslashW(c) ==
    c \in {"a", "b", "c", "d", "e", "f", "i", "l", "m", "n", "o", "p", "r", "w", "x", "y", "U+00E9"}
            \cup DOMAIN LowerCaseOf \cup AsciiDigits \cup NonAsciiDigits \cup {"_"}

\* str.lower(), character by character
Lower(s) == [i \in 1..Len(s) |-> IF s[i] \in DOMAIN LowerCaseOf THEN LowerCaseOf[s[i]] ELSE s[i]]

\* The longest run of word characters at the start of s
RECURSIVE WordRun(_)
WordRun(s) ==
    IF s # <<>> /\ MatchesBackslashW(Head(s)) THEN <<Head(s)>> \o WordRun(Tail(s)) ELSE <<>>

\* re.findall(r"\w+", s): the maximal runs of word characters, left to right
RECURSIVE FindAllWords(_)
FindAllWords(s) ==
    IF s = <<>> THEN <<>>
    ELSE IF MatchesBackslashW(Head(s))
         THEN LET w == WordRun(s)
              IN  <<w>> \o FindAllWords(SubSeq(s, Len(w) + 1, Len(s)))
         ELSE FindAllWords(Tail(s))


\* The words of the synonyms dict and of the queries, as text
Word ==
    [lawn |-> <<"l", "a", "w", "n">>,
     yard |-> <<"y", "a", "r", "d">>,
     mow |-> <<"m", "o", "w">>,
     mowing |-> <<"m", "o", "w", "i", "n", "g">>,
     landscape |-> <<"l", "a", "n", "d", "s", "c", "a", "p", "e">>,
     landscaping |-> <<"l", "a", "n", "d", "s", "c", "a", "p", "i", "n", "g">>,
     clean |-> <<"c", "l", "e", "a", "n">>,
     cleaning |-> <<"c", "l", "e", "a", "n", "i", "n", "g">>,
     housekeeping |-> <<"h", "o", "u", "s", "e", "k", "e", "e", "p", "i", "n", "g">>,
     maid |-> <<"m", "a", "i", "d">>,
     repair |-> <<"r", "e", "p", "a", "i", "r">>,
     fix |-> <<"f", "i", "x">>,
     handyman |-> <<"h", "a", "n", "d", "y", "m", "a", "n">>,
     care |-> <<"c", "a", "r", "e">>]

\* The synonyms dict of search
synonyms ==
    (Word.lawn :> {Word.yard, Word.mow, Word.mowing, Word.landscape, Word.landscaping})
    @@ (Word.clean :> {Word.cleaning, Word.housekeeping, Word.maid})
    @@ (Word.repair :> {Word.fix, Word.handyman})

\* A variant that also maps a synonym back to its key
SynonymsOfBothWays(t) ==
    (IF t \in DOMAIN synonyms THEN synonyms[t] ELSE {})
        \cup {k \in DOMAIN synonyms : t \in synonyms[k]}
\* synonyms.get(t, [])
SynonymsOf(t) == IF t \in DOMAIN synonyms THEN synonyms[t] ELSE {}

\* expanded = set(tokens), then every synonym of every token added
Expanded(tokens) ==
    {tokens[i] : i \in 1..Len(tokens)} \cup UNION {SynonymsOf(tokens[i]) : i \in 1..Len(tokens)}

\* The case folding of SQLite's LIKE: ASCII letters only
LikeFold(c) == IF c \in AsciiUpperLetters THEN LowerCaseOf[c] ELSE c

\* value LIKE '%' || t || '%': in the pattern "_" matches any one character ("%" is
\* no word character, so a token never holds it)
Like(value, t) ==
    \E i \in 0..(Len(value) - Len(t)) :
        \A k \in 1..Len(t) : t[k] = "_" \/ LikeFold(t[k]) = LikeFold(value[i + k])

\* The WHERE clause of the fallback query: one "title LIKE ? OR description LIKE ?"
\* for each expanded token, joined with OR, or "1=1" when there is no token
FallbackWhere(row, expanded) ==
    IF expanded = {} THEN TRUE
    ELSE \E t \in expanded : Like(row.title, t) \/ Like(row.description, t)

\* ORDER BY created_at DESC: every order of the rows that the sort may give, rows
\* of equal created_at in any order
OrderByCreatedAtDesc(rows) ==
    {r \in [1..Cardinality(rows) -> rows] :
        /\ \A i, j \in 1..Cardinality(rows) : i # j => r[i] # r[j]
        /\ \A i, j \in 1..Cardinality(rows) : i < j => r[i].created_at >= r[j].created_at}

\* The query through services_fts: init_db creates no table services_fts, so the
\* statement raises sqlite3.OperationalError (with such a table it raises it as well:
\* MATCH is given the alias f, which is no column)
FtsQuery(match_expr) == [raised |-> TRUE, rows |-> <<>>]

\* q as search uses it, without the strip
QueryTextNoStrip(qField) == IF Falsy(qField) THEN <<>> ELSE qField.s
\* (request.args.get("q", "") or "").strip()
QueryText(qField) == Strip(IF Falsy(qField) THEN <<>> ELSE qField.s)

NoSearch ==
    [served |-> FALSE, field |-> PyNone, q |-> <<>>, opened |-> FALSE, statements |-> <<>>,
     expanded |-> {}, results |-> <<>>, count |-> 0]

NoServices ==
    /\ services = {} /\ service_seq = 0 /\ srch = NoSearch
    /\ products = {} /\ product_seq = 0

\* What a search that ran no statement renders
Rendered(qField, q) ==
    [served |-> TRUE, field |-> qField, q |-> q, opened |-> FALSE, statements |-> <<>>,
     expanded |-> {}, results |-> <<>>, count |-> 0]

\* GET /search?q=...
search(qField) ==
    LET q == QueryText(qField)
        tokens == FindAllWords(Lower(q))
        expanded == Expanded(tokens)
        fts == FtsQuery(expanded)
        rows == {s \in services : s.active = 1 /\ FallbackWhere(s, expanded)}
    IN  /\ IF q = <<>>
           THEN srch' = Rendered(qField, q)
           ELSE IF fts.raised
                THEN \E results \in OrderByCreatedAtDesc(rows) :
                        srch' = [Rendered(qField, q) EXCEPT
                                    !.opened = TRUE, !.statements = <<"MATCH", "LIKE">>,
                                    !.expanded = expanded,
                                    !.results = results, !.count = Len(results)]
                ELSE srch' = [Rendered(qField, q) EXCEPT
                                 !.opened = TRUE, !.statements = <<"MATCH">>,
                                 !.expanded = expanded,
                                 !.results = fts.rows, !.count = Len(fts.rows)]
        /\ UNCHANGED <<services, service_seq, zipvars, leadvars, provvars, products, product_seq>>

\* The admin's service forms: title, description and the "active" checkbox
ServiceForms ==
    {[title |-> PyStr(<<" ", "L", "a", "w", "n", " ">>), description |-> PyStr(<<"w", "e", " ", "m", "o", "w">>), active |-> "on"],
     [title |-> PyStr(<<"a", "x", "b">>), description |-> PyStr(<<"U+00C9">>), active |-> "on"],
     [title |-> PyStr(<<"Y", "a", "r", "d">>), description |-> PyNone, active |-> "None"],
     [title |-> PyStr(<<" ">>), description |-> PyStr(<<>>), active |-> "on"]}

\* request.form.get(name, "").strip()
FormText(field) == Strip(IF field.none THEN <<>> ELSE field.s)

\* POST /admin/services/new with the "certified" checkbox off: the row gets
\* provider_id 0, the column default
admin_service_new(form) ==
    LET title == FormText(form.title)
        description == FormText(form.description)
        active == IF form.active = "on" THEN 1 ELSE 0
    IN  /\ service_seq < MaxServices
        /\ IF title = <<>>
           THEN UNCHANGED <<services, service_seq>>
           ELSE /\ services' = services \cup
                        {[id |-> service_seq + 1, title |-> title, description |-> description,
                          active |-> active, provider_id |-> 0, created_at |-> now]}
                /\ service_seq' = service_seq + 1
        /\ UNCHANGED <<srch, zipvars, leadvars, provvars, products, product_seq>>

\* The q parameter of a search request: absent, empty, blank, without a word
\* character, and with words
QueryFields ==
    {PyNone, PyStr(<<>>), PyStr(<<" ", " ">>), PyStr(<<"!", "!", "!">>),
     PyStr(Word.lawn \o <<" ">> \o Word.care), PyStr(<<"Y", "a", "r", "d">>), PyStr(Word.clean),
     PyStr(Word.repair), PyStr(<<"a", "_", "b">>), PyStr(<<"U+00C9">>)}

----------------------------------------------------------------------------
(* Numbers *)

RECURSIVE GCD(_, _)
GCD(a, b) == IF b = 0 THEN a ELSE GCD(b, a % b)

\* The conversion factor 0.621371 = MilesPerKmNum / MilesPerKmDen
MilesPerKmNum == 621371
MilesPerKmDen == 1000000

\* q * 0.621371 for a rational q, reduced crosswise before multiplying
TimesMilesPerKm(q) ==
    LET g1 == GCD(q.num, MilesPerKmDen)
        g2 == GCD(MilesPerKmNum, q.den)
    IN  [num |-> (q.num \div g1) * (MilesPerKmNum \div g2),
         den |-> (q.den \div g2) * (MilesPerKmDen \div g1)]

----------------------------------------------------------------------------
(* The distance provider, geo_dist.query_postal_code *)

Raises  == [kind |-> "raise", num |-> 0, den |-> 1]
NoneKm  == [kind |-> "None",  num |-> 0, den |-> 1]
NaN     == [kind |-> "nan",   num |-> 0, den |-> 1]
Float(n, d) == [kind |-> "float", num |-> n, den |-> d]

\* 10 km (6.21371 miles), 33 km (20.505243 miles), and the distance that
\* converts to exactly 20 miles
Km10   == Float(10, 1)
Km33   == Float(33, 1)
KmAt20 == Float(20000000, 621371)

Outcomes == {Raises, NoneKm, NaN, Km10, Km33, KmAt20}

\* query_postal_code(row zip, input zip) under the provider behaviour `answers`,
\* a function from the row zip to the outcome for the input at hand
query_postal_code(answers, rowzip) == answers[rowzip]

----------------------------------------------------------------------------
(* is_zip_allowed *)

\* try: km = query(...)  except Exception: km = None
TryQueryNoCatch(answers, rowzip) == query_postal_code(answers, rowzip)
TryQuery(answers, rowzip) ==
    LET o == query_postal_code(answers, rowzip)
    IN  IF o.kind = "raise" THEN NoneKm ELSE o

\* km is None or (isinstance(km, float) and km != km)
IsMissing(km) == km.kind = "None" \/ km.kind = "nan"

\* float(km) * 0.621371 <= float(radius_miles)
WithinRadiusStrict(km, radius_miles) ==
    LET miles == TimesMilesPerKm(km)
    IN  miles.num < radius_miles * miles.den
WithinRadius(km, radius_miles) ==
    LET miles == TimesMilesPerKm(km)
    IN  miles.num <= radius_miles * miles.den

Outcome(result, read, queried, raised) ==
    [result |-> result, read |-> read, queried |-> queried, raised |-> raised]

\* for r in rows: ... (the proximity loop from row i on; `queried` lists the
\* row zips handed to the provider so far)
ProximityLoopFirstOnly(rows, i, answers, queried) ==
    IF i > Len(rows) THEN Outcome(FALSE, TRUE, queried, FALSE)
    ELSE LET r  == rows[i]
             km == TryQuery(answers, r.zip)
             q  == Append(queried, r.zip)
         IN  IF ~IsMissing(km) /\ WithinRadius(km, r.radius_miles)
             THEN Outcome(TRUE, TRUE, q, FALSE)
             ELSE Outcome(FALSE, TRUE, q, FALSE)

RECURSIVE ProximityLoop(_, _, _, _)
ProximityLoop(rows, i, answers, queried) ==
    IF i > Len(rows) THEN Outcome(FALSE, TRUE, queried, FALSE)
    ELSE LET r  == rows[i]
             km == TryQuery(answers, r.zip)
             q  == Append(queried, r.zip)
         IN  IF km.kind = "raise" THEN Outcome(FALSE, TRUE, q, TRUE)
             ELSE IF IsMissing(km) THEN ProximityLoop(rows, i + 1, answers, q)
             ELSE IF WithinRadius(km, r.radius_miles) THEN Outcome(TRUE, TRUE, q, FALSE)
             ELSE ProximityLoop(rows, i + 1, answers, q)

\* if not zip_code or not re.fullmatch(r"\d{5}", zip_code)
MalformedNoPattern(zip_code) == Falsy(zip_code)
Malformed(zip_code) == Falsy(zip_code) \/ ~FullMatchD5(zip_code.s)

\* any(r["zip"] == zip_code for r in rows)
ExactMatchPrefix(rows, zip_code) ==
    \E i \in 1..Len(rows) : SubSeq(rows[i].zip, 1, 3) = SubSeq(zip_code.s, 1, 3)
ExactMatch(rows, zip_code) == \E i \in 1..Len(rows) : rows[i].zip = zip_code.s

\* is_zip_allowed(zip_code), with `rows` the result of fetchall() and `geo` the
\* module's geo_dist
is_zip_allowed_ProximityFirst(zip_code, rows, answers, geo) ==
    IF Malformed(zip_code) THEN Outcome(FALSE, FALSE, <<>>, FALSE)
    ELSE LET near == IF geo # "None" THEN ProximityLoop(rows, 1, answers, <<>>)
                     ELSE Outcome(FALSE, TRUE, <<>>, FALSE)
         IN  IF near.result \/ near.raised THEN near
             ELSE Outcome(ExactMatch(rows, zip_code), TRUE, near.queried, FALSE)

is_zip_allowed(zip_code, rows, answers, geo) ==
    IF Malformed(zip_code) THEN Outcome(FALSE, FALSE, <<>>, FALSE)
    ELSE IF ExactMatch(rows, zip_code) THEN Outcome(TRUE, TRUE, <<>>, FALSE)
    ELSE IF geo # "None" THEN ProximityLoop(rows, 1, answers, <<>>)
    ELSE Outcome(FALSE, TRUE, <<>>, FALSE)

----------------------------------------------------------------------------
(* Request inputs *)

\* five digit characters, the last one outside ASCII
ZUnicode == <<"8", "5", "3", "0", "U+0663">>

\* ZIPs the admin submits, after which they may be rows of the table
\* A five-digit ZIP code of the 8530x range, as text
Z8530(d) == <<"8", "5", "3", "0", d>>

StorableZips == {Z8530("1"), Z8530("2"), ZUnicode}

MalformedTexts ==
    { <<>>, <<"8", "5", "3", "0">>, <<"8", "5", "3", "0", "1", "1">>,
      <<"8", "5", "3", "0", "x">>, <<" ", "8", "5", "3", "0">> }

\* Arguments of is_zip_allowed
CallInputs ==
    {PyNone} \cup {PyStr(s) : s \in StorableZips \cup {Z8530("3")} \cup MalformedTexts}

\* Values of the form field "zip" (None: the field is absent)
ZipFields ==
    {PyNone} \cup {PyStr(s) : s \in StorableZips \cup
                       { <<" ">> \o Z8530("2"), <<"8", "5", "3", "0">>, <<"8", "5", "3", "0", "x">> }}

\* Values of the form field "radius"
RadiusFields ==
    {PyNone} \cup {PyStr(s) : s \in { <<"2", "0">>, <<"4", "0">>, <<"6", "0">>, <<"8", "0">>,
                                      <<"2", "5">>, <<"-", "4", "0">>, <<"4", "x">>, <<>> }}

\* request.form.get(name, default)
FormGet(field, default) == IF field.none THEN default ELSE field.s

----------------------------------------------------------------------------
(* int(text) *)

DigitValue(c) ==
    CASE c = "0" -> 0 [] c = "1" -> 1 [] c = "2" -> 2 [] c = "3" -> 3 [] c = "4" -> 4
      [] c = "5" -> 5 [] c = "6" -> 6 [] c = "7" -> 7 [] c = "8" -> 8 [] c = "9" -> 9
      [] c = "U+0663" -> 3

RECURSIVE DigitsValue(_)
DigitsValue(s) ==
    IF s = <<>> THEN 0
    ELSE 10 * DigitsValue(SubSeq(s, 1, Len(s) - 1)) + DigitValue(s[Len(s)])

AllDigits(s) == s # <<>> /\ \A i \in 1..Len(s) : MatchesBackslashD(s[i])

\* int(s): [ok |-> FALSE] stands for ValueError
IntParse(s) ==
    LET t    == Strip(s)
        body == IF t # <<>> /\ Head(t) \in {"-", "+"} THEN Tail(t) ELSE t
    IN  IF ~AllDigits(body) THEN [ok |-> FALSE, val |-> 0]
        ELSE IF t # <<>> /\ Head(t) = "-" THEN [ok |-> TRUE, val |-> 0 - DigitsValue(body)]
        ELSE [ok |-> TRUE, val |-> DigitsValue(body)]

----------------------------------------------------------------------------
(* The provider tables after init_db, and no eligibility call in progress *)

NoElig == [n |-> 0, zip |-> PyNone, answers |-> <<>>, result |-> {}]

\* The worker threads that serve requests side by side
Workers == {1, 2}

\* A worker that is serving no service-area add; outcome tells how its last one ended
Idle(outcome) ==
    [pc |-> "idle", provider_id |-> 0, zip_code |-> <<>>, radius_miles |-> 0,
     outcome |-> outcome]

NoRequests == [w \in Workers |-> Idle("none")]

NoProviders ==
    /\ providers = {} /\ provider_seq = 0
    /\ profile_base_zip = PyNone
    /\ provider_zips = {} /\ area_seq = 0
    /\ elig = NoElig
    /\ inflight = NoRequests

----------------------------------------------------------------------------
(* Admin ZIP management *)

AllowedRadii == {20, 40, 60, 80}

\* try: radius_val = int(radius) except ValueError: radius_val = 20
\* if radius_val not in (20, 40, 60, 80): radius_val = 20
RadiusValAnyInteger(radiusField) ==
    LET radius == Strip(FormGet(radiusField, <<"2", "0">>))
        p      == IntParse(radius)
    IN  IF p.ok THEN p.val ELSE 20
RadiusVal(radiusField) ==
    LET radius == Strip(FormGet(radiusField, <<"2", "0">>))
        p      == IntParse(radius)
        v      == IF p.ok THEN p.val ELSE 20
    IN  IF v \notin AllowedRadii THEN 20 ELSE v

\* INSERT OR IGNORE INTO zips ...; UPDATE zips SET radius_miles = ? WHERE zip = ?
Upsert(table, zip_code, radius_val) ==
    {r \in table : r.zip # zip_code} \cup {[zip |-> zip_code, radius_miles |-> radius_val]}

\* UPDATE zips SET radius_miles = ? WHERE zip = ?
UpdateRadius(table, zip_code, radius_val) ==
    {IF r.zip = zip_code THEN [r EXCEPT !.radius_miles = radius_val] ELSE r : r \in table}

\* POST /admin/zips
admin_zips(zipField, radiusField) ==
    LET zip_code   == Strip(FormGet(zipField, <<>>))
        radius_val == RadiusVal(radiusField)
    IN  /\ call.n = 0
        /\ IF ~FullMatchD5(zip_code)
              THEN zips' = zips
              ELSE /\ (\E r \in zips : r.zip = zip_code) \/ Cardinality(zips) < MaxZipRows
                   /\ zips' = Upsert(zips, zip_code, radius_val)
        /\ UNCHANGED <<geo_dist, call, leadvars, provvars, srchvars, products, product_seq>>

\* POST /admin/zips/<zip_code>/delete
admin_zip_delete_All(zip_code) ==
    /\ call.n = 0
    /\ zips' = {}
    /\ UNCHANGED <<geo_dist, call, leadvars, provvars, srchvars, products, product_seq>>
admin_zip_delete(zip_code) ==
    /\ call.n = 0
    /\ zips' = {r \in zips : r.zip # zip_code}
    /\ UNCHANGED <<geo_dist, call, leadvars, provvars, srchvars, products, product_seq>>

\* POST /admin/zips/<zip_code>/update
admin_zip_update(zip_code, radiusField) ==
    /\ call.n = 0
    /\ zips' = UpdateRadius(zips, zip_code, RadiusVal(radiusField))
    /\ UNCHANGED <<geo_dist, call, leadvars, provvars, srchvars, products, product_seq>>

----------------------------------------------------------------------------
(* Calls of is_zip_allowed. Requests are served one at a time: `call` holds  *)
(* the call being answered, and the next request starts after Respond.       *)

\* The orders in which fetchall() may return the rows of a table without ORDER BY
Fetchall(table) ==
    {rows \in [1..Cardinality(table) -> table] :
        \A i, j \in 1..Cardinality(table) : i # j => rows[i] # rows[j]}

RowZips(table) == {r.zip : r \in table}

\* How the provider may answer for the rows of the table and the input at hand.
\* Where the input is rejected or matches a row verbatim, one outcome for all rows.
ProviderBehaviours(zip_code, table) ==
    IF Malformed(zip_code) \/ zip_code.s \in RowZips(table)
    THEN {[z \in RowZips(table) |-> o] : o \in Outcomes}
    ELSE [RowZips(table) -> Outcomes]

NoCall ==
    [n |-> 0, zip_code |-> PyNone, rows |-> <<>>, answers |-> <<>>,
     out |-> Outcome(FALSE, FALSE, <<>>, FALSE), prev |-> FALSE]

\* A request handler calls is_zip_allowed(zip_code). `rows` is what fetchall()
\* returned, <<>> where the call returned before reading the table.
IsZipAllowedCall(zip_code) ==
    /\ call.n = 0
    /\ \E rows \in Fetchall(zips) : \E answers \in ProviderBehaviours(zip_code, zips) :
          LET out == is_zip_allowed(zip_code, rows, answers, geo_dist)
          IN  call' = [n |-> 1, zip_code |-> zip_code,
                       rows |-> IF out.read THEN rows ELSE <<>>,
                       answers |-> answers, out |-> out, prev |-> FALSE]
    /\ UNCHANGED <<zips, geo_dist, leadvars, provvars, srchvars, products, product_seq>>

\* The same call again: same argument, same table (read in any order), same
\* provider behaviour
IsZipAllowedRepeat ==
    /\ call.n = 1
    /\ \E rows \in Fetchall(zips) :
          LET out == is_zip_allowed(call.zip_code, rows, call.answers, geo_dist)
          IN  call' = [call EXCEPT !.n = 2, !.prev = call.out.result, !.out = out,
                                   !.rows = IF out.read THEN rows ELSE <<>>]
    /\ UNCHANGED <<zips, geo_dist, leadvars, provvars, srchvars, products, product_seq>>

\* The handler returns its response
Respond ==
    /\ call.n > 0
    /\ call' = NoCall
    /\ UNCHANGED <<zips, geo_dist, leadvars, provvars, srchvars, products, product_seq>>

ZipInit ==
    /\ NoServices
    /\ zips = {}
    /\ geo_dist \in {"None", "GeoDistance"}
    /\ call = NoCall
    /\ leads = <<>> /\ now = 0 /\ origin = <<>> /\ doneRec = {} /\ nreq = 0
    /\ NoProviders

ZipNext ==
    \/ \E z \in ZipFields, r \in RadiusFields : admin_zips(z, r)
    \/ \E z \in StorableZips \cup {Z8530("3")} : admin_zip_delete(z)
    \/ \E z \in StorableZips \cup {Z8530("3")}, r \in RadiusFields : admin_zip_update(z, r)
    \/ \E z \in CallInputs : IsZipAllowedCall(z)
    \/ IsZipAllowedRepeat
    \/ Respond

ZipSpec == ZipInit /\ [][ZipNext]_vars

----------------------------------------------------------------------------
(* Leads *)

\* Ids of the providers that own leads and act on them
ProviderIds == {1, 2}

\* provider_ids[i % len(provider_ids)] for the sample lead of the model
SampleProviderIds == {2}

\* random.randint(0, 30), one value of it
SampleDaysAgo == {3}

\* One row of the leads table (the column service, written by no handler, is left out)
Lead(name, email, phone, zip, address, message, status, follow_up_date, recurring, provider_id, created_at) ==
    [name |-> name, email |-> email, phone |-> phone, zip |-> zip, address |-> address,
     message |-> message, status |-> status, follow_up_date |-> follow_up_date,
     recurring |-> recurring, provider_id |-> provider_id, created_at |-> created_at]

\* NULL in a date column
NullDate == -1

\* Entries of SAMPLE_LEADS
SampleMessage ==
    <<"Need", " ", "Lawn", " ", "Mowing", " ", "Service", " ", "weekly", " ", "for", " ",
      "large", " ", "backyard">>

SampleLeads ==
    { [name |-> "Maria Garcia", email |-> "maria.g@email.com", phone |-> "(555) 555-6666",
       zip |-> "85375", message |-> SampleMessage] }

\* add_sample_data: INSERT INTO leads (name, email, phone, zip, message, provider_id,
\* created_at); the other columns take their defaults
SampleLeadRow(lead, provider_id, created_at) ==
    Lead(lead.name, lead.email, lead.phone, lead.zip, PyNone, PyStr(lead.message),
         "new", NullDate, 0, provider_id, created_at)

\* Rows written by the contact form before the first request of a run: a new lead
\* with an address and no message, owned by provider 1
ContactLeads ==
    { Lead("Ann Lee", "ann@example.com", "555-0100", "85301",
           PyStr(<<"1", " ", "Main", " ", "St">>), PyNone, "new", NullDate, 0, 1, 0) }

\* Who inserted a lead: the contact form or sample data ("insert"), or a request that
\* copied lead `of`
Inserted == [of |-> 0, by |-> "insert"]
CopiedFrom(lead_id, by) == [of |-> lead_id, by |-> by]

\* cur.fetchone() for SELECT ... FROM leads WHERE id = ?
Exists(table, lead_id) == lead_id \in 1..Len(table)

\* The literal text of f"[RECURRING WEEKLY] {...}"
RecurringPrefix == <<"[RECURRING", " ", "WEEKLY]", " ">>

\* message or ''
OrEmpty(message) == IF Falsy(message) THEN <<>> ELSE message.s

\* f"[RECURRING WEEKLY] {lead_info['message'] or ''}".strip()
RecurringMessageCopy(message) == message
RecurringMessage(message) == PyStr(Strip(RecurringPrefix \o OrEmpty(message)))

\* (datetime.datetime.now() + datetime.timedelta(days=7)).isoformat()
NextWeek(t) == t + 7

\* (datetime.datetime.now() + datetime.timedelta(days=1)).date().isoformat()
Tomorrow(t) == t + 1

\* INSERT INTO leads (name, email, phone, zip, address, message, created_at, status,
\* recurring) VALUES (?, ?, ?, ?, ?, ?, ?, 'scheduled', 1); provider_id and
\* follow_up_date take their defaults
NextWeekLead(info, t) ==
    Lead(info.name, info.email, info.phone, info.zip, info.address,
         RecurringMessage(info.message), "scheduled", NullDate, 1, 0, NextWeek(t))

\* UPDATE leads SET status = ? WHERE id = ?
SetStatus(table, lead_id, status) ==
    [i \in 1..Len(table) |->
        IF i = lead_id THEN [table[i] EXCEPT !.status = status] ELSE table[i]]

\* UPDATE leads SET status = 'scheduled', follow_up_date = ? WHERE id = ?
SetFollowUpOwnStatus(table, lead_id, date) ==
    [i \in 1..Len(table) |->
        IF i = lead_id
        THEN [table[i] EXCEPT !.status = "tomorrow", !.follow_up_date = date]
        ELSE table[i]]
SetFollowUp(table, lead_id, date) ==
    [i \in 1..Len(table) |->
        IF i = lead_id
        THEN [table[i] EXCEPT !.status = "scheduled", !.follow_up_date = date]
        ELSE table[i]]

\* UPDATE leads SET recurring = ? WHERE id = ?
SetRecurringScheduled(table, lead_id, recurring) ==
    [i \in 1..Len(table) |->
        IF i = lead_id
        THEN [table[i] EXCEPT !.recurring = recurring, !.status = "scheduled"]
        ELSE table[i]]
SetRecurring(table, lead_id, recurring) ==
    [i \in 1..Len(table) |->
        IF i = lead_id THEN [table[i] EXCEPT !.recurring = recurring] ELSE table[i]]

\* lead_info and lead_info["recurring"]
IsRecurring(table, lead_id) == Exists(table, lead_id) /\ table[lead_id].recurring # 0

\* One more request is served, within the bound of the run
Served == nreq < MaxRequests /\ nreq' = nreq + 1

\* provider_lead_action, action == "complete"
CompleteLead(lead_id) ==
    IF IsRecurring(leads, lead_id)
    THEN /\ Len(leads) < MaxLeads
         /\ leads' = Append(SetStatus(leads, lead_id, "completed"),
                            NextWeekLead(leads[lead_id], now))
         /\ origin' = Append(origin, CopiedFrom(lead_id, "complete"))
         /\ doneRec' = doneRec \cup {lead_id}
    ELSE /\ leads' = SetStatus(leads, lead_id, "completed")
         /\ UNCHANGED <<origin, doneRec>>

\* provider_lead_action, action == "weekly"
ToggleWeekly(lead_id) ==
    LET new_recurring == IF IsRecurring(leads, lead_id) THEN 0 ELSE 1
    IN  /\ leads' = SetRecurring(leads, lead_id, new_recurring)
        /\ UNCHANGED <<origin, doneRec>>

\* Values of the form field "action"
LeadActions == {"complete", "reject", "tomorrow", "weekly", "archive"}

\* POST /provider/leads/<lead_id>/action, in the session of provider provider_id
provider_lead_action(provider_id, lead_id, action) ==
    /\ CASE action = "complete" -> CompleteLead(lead_id)
         [] action = "reject" ->
                /\ leads' = SetStatus(leads, lead_id, "rejected")
                /\ UNCHANGED <<origin, doneRec>>
         [] action = "tomorrow" ->
                /\ leads' = SetFollowUp(leads, lead_id, Tomorrow(now))
                /\ UNCHANGED <<origin, doneRec>>
         [] action = "weekly" -> ToggleWeekly(lead_id)
         [] OTHER -> UNCHANGED <<leads, origin, doneRec>>
    /\ Served
    /\ UNCHANGED <<now, zipvars, srchvars, products, product_seq, provvars>>

\* "with closing(get_db()) as db" left by an exception before db.commit(): the
\* connection is closed and the writes it has not committed are dropped
ClosedAutocommit(committed, written) == written
Closed(committed, written) == committed

\* provider_lead_action, action == "complete", in a request that fails after the
\* UPDATE or after the INSERT, before db.commit()
provider_lead_action_fails(lead_id, at) ==
    LET updated == SetStatus(leads, lead_id, "completed")
        written == IF at = "after INSERT" /\ IsRecurring(leads, lead_id)
                   THEN Append(updated, NextWeekLead(leads[lead_id], now))
                   ELSE updated
    IN  /\ Len(leads) < MaxLeads
        /\ leads' = Closed(leads, written)
        /\ origin' = [i \in 1..Len(leads') |->
                         IF i <= Len(origin) THEN origin[i] ELSE CopiedFrom(lead_id, "complete")]
        /\ Served
        /\ UNCHANGED <<doneRec, now, zipvars, srchvars, products, product_seq, provvars>>

\* POST /provider/leads/<lead_id>/schedule-next
provider_schedule_next_week(lead_id) ==
    /\ IF Exists(leads, lead_id)
       THEN /\ Len(leads) < MaxLeads
            /\ leads' = Append(leads, NextWeekLead(leads[lead_id], now))
            /\ origin' = Append(origin, CopiedFrom(lead_id, "schedule-next"))
       ELSE UNCHANGED <<leads, origin>>
    /\ Served
    /\ UNCHANGED <<doneRec, now, zipvars, srchvars, products, product_seq, provvars>>

\* POST /provider/leads/<lead_id>/block-address: SELECT name, address, zip FROM leads,
\* then, for a lead with an address, INSERT INTO blocked_addresses (a table outside
\* this model; on the table init_db creates, which has no columns reason and
\* created_at, the INSERT raises and the request fails)
provider_block_lead_address(lead_id) ==
    /\ Served
    /\ UNCHANGED <<leads, origin, doneRec, now, zipvars, srchvars, products, product_seq, provvars>>

\* add_sample_data, one iteration of "for i, lead in enumerate(SAMPLE_LEADS)";
\* days_ago = random.randint(0, 30)
add_sample_lead(lead, provider_id, days_ago) ==
    /\ Len(leads) < MaxLeads
    /\ leads' = Append(leads, SampleLeadRow(lead, provider_id, now - days_ago))
    /\ origin' = Append(origin, Inserted)
    /\ Served
    /\ UNCHANGED <<doneRec, now, zipvars, srchvars, products, product_seq, provvars>>

\* Time passes
Tick ==
    /\ now < MaxDay
    /\ now' = now + 1
    /\ UNCHANGED <<leads, origin, doneRec, nreq, zipvars, srchvars, products, product_seq, provvars>>

\* Ids a request may name: the rows that may exist and one that never does
LeadIds == 1..(MaxLeads + 1)

LeadInit ==
    /\ NoServices
    /\ leads \in {<<>>} \cup {<<row>> : row \in ContactLeads}
    /\ origin = [i \in 1..Len(leads) |-> Inserted]
    /\ doneRec = {}
    /\ now = 0
    /\ nreq = 0
    /\ zips = {} /\ geo_dist = "None" /\ call = NoCall
    /\ NoProviders

\* The handler reads nothing of the session but that a provider is logged in, so the
\* requests of one session reach every state the requests of any session reach
LeadNext ==
    \/ \E p \in {1}, i \in LeadIds, a \in LeadActions : provider_lead_action(p, i, a)
    \/ \E i \in LeadIds, at \in {"after UPDATE", "after INSERT"} :
          provider_lead_action_fails(i, at)
    \/ \E i \in LeadIds : provider_schedule_next_week(i)
    \/ \E l \in SampleLeads, p \in SampleProviderIds, d \in SampleDaysAgo :
          add_sample_lead(l, p, d)
    \/ Tick

LeadSpec == LeadInit /\ [][LeadNext]_vars

----------------------------------------------------------------------------
(* Provider accounts and service areas *)

\* Email addresses, "@" written as one element
Ann == <<"ann", "@", "example.com">>
Bob == <<"bob", "@", "example.com">>

\* Values of the form field "email" of the registration form
EmailFields == {PyNone, PyStr(Ann), PyStr(<<" ">> \o Bob), PyStr(<<"ann">>)}

\* "@" in email
HasAt(email) == \E i \in 1..Len(email) : email[i] = "@"

\* One row of the providers table (the columns no check reads are left out)
Provider(id, email, active, base_zip) ==
    [id |-> id, email |-> email, active |-> active, base_zip |-> base_zip]

\* INSERT INTO providers (email, password_hash, first_name, business_name, created_at);
\* active takes its default 1, base_zip is NULL
NewProvider(id, email) == Provider(id, email, 1, PyNone)

\* One more request is served, within the bound of the run
ProviderServed == nreq < MaxProviderRequests /\ nreq' = nreq + 1

\* POST /provider/register with a password of 6 characters or more, confirmed
provider_register(emailField) ==
    LET email == Strip(FormGet(emailField, <<>>))
    IN  /\ elig.n = 0
        /\ IF email = <<>> \/ ~HasAt(email) \/ (\E p \in providers : p.email = email)
           THEN UNCHANGED <<providers, provider_seq>>
           ELSE /\ provider_seq < MaxProviders
                /\ provider_seq' = provider_seq + 1
                /\ providers' = providers \cup {NewProvider(provider_seq + 1, email)}
        /\ ProviderServed
        /\ UNCHANGED <<profile_base_zip, provider_zips, area_seq, elig, inflight>>
        /\ UNCHANGED <<zipvars, srchvars, products, product_seq, leads, now, origin, doneRec>>

\* session.get('provider_id', 0): 0 for the admin provider, else the id of an account
\* that logged in or registered (which an admin may have deleted since)
SessionProviderIds == 0..provider_seq

\* Values of the form field "base_zip"
BaseZipFields == {PyNone, PyStr(<<" ">> \o Z8530("2")), PyStr(<<"8", "5", "3", "0">>)}

\* UPDATE providers SET ..., base_zip=?, ... WHERE id = ?
SetBaseZip(table, provider_id, base_zip) ==
    {IF p.id = provider_id THEN [p EXCEPT !.base_zip = PyStr(base_zip)] ELSE p : p \in table}

\* POST /provider/profile in the session of provider current_provider_id
provider_profile(current_provider_id, baseZipField) ==
    LET base_zip == Strip(FormGet(baseZipField, <<>>))
    IN  /\ elig.n = 0
        /\ IF base_zip # <<>> /\ ~FullMatchD5(base_zip)
           THEN UNCHANGED <<providers, profile_base_zip>>
           ELSE IF current_provider_id = 0
           THEN /\ profile_base_zip' = PyStr(base_zip)
                /\ UNCHANGED providers
           ELSE /\ providers' = SetBaseZip(providers, current_provider_id, base_zip)
                /\ UNCHANGED profile_base_zip
        /\ ProviderServed
        /\ UNCHANGED <<provider_seq, provider_zips, area_seq, elig, inflight>>
        /\ UNCHANGED <<zipvars, srchvars, products, product_seq, leads, now, origin, doneRec>>

\* The limit of "if current_count >= 5"
MaxServiceAreas == 5

\* The default of request.form.get("radius_miles", 10)
DefaultRadiusMiles == 10

\* Values of the form field "zip_code" of the service-area form
AreaZipFields == {PyNone, PyStr(Z8530("1") \o <<" ">>), PyStr(<<"8", "5", "3", "0", "x">>)}

\* The form field "radius_miles" left unspecified: absent, or submitted blank
UnspecifiedRadiusFields == {PyNone, PyStr(<<>>)}

\* Values of the form field "radius_miles" of the service-area form
AreaRadiusFields == {PyNone, PyStr(<<"2", "0">>), PyStr(<<>>)}

\* str.isdigit(): every character is a digit and there is at least one
IsDigit(s) == s # <<>> /\ \A i \in 1..Len(s) : s[i] \in AsciiDigits \cup NonAsciiDigits

\* int(request.form.get("radius_miles", 10))
AreaRadius(radiusField) ==
    IF radiusField.none THEN [ok |-> TRUE, val |-> DefaultRadiusMiles]
    ELSE IntParse(radiusField.s)

\* One row of the provider_zips table
ServiceArea(id, provider_id, zip_code, radius_miles) ==
    [id |-> id, provider_id |-> provider_id, zip_code |-> zip_code,
     radius_miles |-> radius_miles]

\* SELECT ... FROM provider_zips WHERE provider_id = ?
AreasOf(table, provider_id) == {r \in table : r.provider_id = provider_id}

\* if current_count >= 5
AtCapOffByOne(mine) == Cardinality(mine) > MaxServiceAreas
AtCap(mine) == Cardinality(mine) >= MaxServiceAreas

\* POST /provider/service-areas in the session of provider current_provider_id;
\* a radius that int() rejects ends the request with ValueError before the store is used
provider_service_areas(current_provider_id, zipField, radiusField) ==
    LET zip_code     == Strip(FormGet(zipField, <<>>))
        radius_miles == AreaRadius(radiusField)
        mine         == AreasOf(provider_zips, current_provider_id)
    IN  /\ elig.n = 0
        /\ IF \/ ~radius_miles.ok
              \/ zip_code = <<>> \/ Len(zip_code) # 5 \/ ~IsDigit(zip_code)
              \/ AtCap(mine)
              \/ \E r \in mine : r.zip_code = zip_code
           THEN UNCHANGED <<provider_zips, area_seq>>
           ELSE /\ area_seq < MaxAreaRows
                /\ area_seq' = area_seq + 1
                /\ provider_zips' = provider_zips \cup
                      {ServiceArea(area_seq + 1, current_provider_id, zip_code,
                                   radius_miles.val)}
        /\ ProviderServed
        /\ UNCHANGED <<providers, provider_seq, profile_base_zip, elig, inflight>>
        /\ UNCHANGED <<zipvars, srchvars, products, product_seq, leads, now, origin, doneRec>>

\* POST /provider/service-areas/<area_id>/delete in the session of current_provider_id
provider_service_area_delete_AnyOwner(current_provider_id, area_id) ==
    /\ elig.n = 0
    /\ provider_zips' = {r \in provider_zips : r.id # area_id}
    /\ ProviderServed
    /\ UNCHANGED <<providers, provider_seq, profile_base_zip, area_seq, elig, inflight>>
    /\ UNCHANGED <<zipvars, srchvars, products, product_seq, leads, now, origin, doneRec>>
provider_service_area_delete(current_provider_id, area_id) ==
    /\ elig.n = 0
    /\ provider_zips' =
          {r \in provider_zips : ~(r.id = area_id /\ r.provider_id = current_provider_id)}
    /\ ProviderServed
    /\ UNCHANGED <<providers, provider_seq, profile_base_zip, area_seq, elig, inflight>>
    /\ UNCHANGED <<zipvars, srchvars, products, product_seq, leads, now, origin, doneRec>>

\* UPDATE providers SET active = ? WHERE id = ?
SetActiveAll(table, provider_id, new_status) == {[p EXCEPT !.active = new_status] : p \in table}
SetActive(table, provider_id, new_status) ==
    {IF p.id = provider_id THEN [p EXCEPT !.active = new_status] ELSE p : p \in table}

\* POST /admin/providers/<provider_id>/toggle
admin_provider_toggle(provider_id) ==
    /\ elig.n = 0
    /\ IF ~\E p \in providers : p.id = provider_id
       THEN UNCHANGED providers
       ELSE LET provider   == CHOOSE p \in providers : p.id = provider_id
                new_status == IF provider.active # 0 THEN 0 ELSE 1
            IN  providers' = SetActive(providers, provider_id, new_status)
    /\ ProviderServed
    /\ UNCHANGED <<provider_seq, profile_base_zip, provider_zips, area_seq, elig, inflight>>
    /\ UNCHANGED <<zipvars, srchvars, products, product_seq, leads, now, origin, doneRec>>

\* POST /admin/providers/<provider_id>/delete: where the provider exists,
\* DELETE FROM services WHERE provider_id = ?, then DELETE FROM providers WHERE id = ?
admin_provider_delete_WithLeads(provider_id) ==
    /\ elig.n = 0
    /\ providers' = {p \in providers : p.id # provider_id}
    /\ leads' = SelectSeq(leads, LAMBDA l : l.provider_id # provider_id)
    /\ origin' = SubSeq(origin, 1, Len(leads'))
    /\ ProviderServed
    /\ UNCHANGED <<provider_seq, profile_base_zip, provider_zips, area_seq, elig, inflight>>
    /\ services' = {s \in services : s.provider_id # provider_id}
    /\ UNCHANGED <<zipvars, service_seq, srch, products, product_seq, now, doneRec>>
admin_provider_delete(provider_id) ==
    /\ elig.n = 0
    /\ IF ~\E p \in providers : p.id = provider_id
       THEN UNCHANGED <<services, providers>>
       ELSE /\ services' = {s \in services : s.provider_id # provider_id}
            /\ providers' = {p \in providers : p.id # provider_id}
    /\ ProviderServed
    /\ UNCHANGED <<provider_seq, profile_base_zip, provider_zips, area_seq, elig, inflight>>
    /\ UNCHANGED <<zipvars, service_seq, srch, products, product_seq, leads, now, origin, doneRec>>

\* SELECT id FROM services WHERE provider_id = ? AND LOWER(title) = LOWER(?) AND active = 1
\* (LOWER of SQLite folds ASCII letters only, as LIKE does)
ExistingService(table, provider_id, title) ==
    \E s \in table :
        /\ s.provider_id = provider_id /\ s.active = 1
        /\ Len(s.title) = Len(title)
        /\ \A i \in 1..Len(title) : LikeFold(s.title[i]) = LikeFold(title[i])

\* POST /provider/services/new in the session of current_provider_id, with the
\* "certified" checkbox off
provider_service_new(current_provider_id, form) ==
    LET title == FormText(form.title)
        description == FormText(form.description)
        active == IF form.active = "on" THEN 1 ELSE 0
    IN  /\ service_seq < MaxServices
        /\ IF title = <<>> \/ ExistingService(services, current_provider_id, title)
           THEN UNCHANGED <<services, service_seq>>
           ELSE /\ services' = services \cup
                        {[id |-> service_seq + 1, title |-> title, description |-> description,
                          active |-> active, provider_id |-> current_provider_id,
                          created_at |-> now]}
                /\ service_seq' = service_seq + 1
        /\ UNCHANGED <<srch, zipvars, leadvars, provvars, products, product_seq>>

\* POST /provider/products/new in the session of current_provider_id, with a title
\* and the "active" checkbox on
provider_product_new(current_provider_id) ==
    /\ product_seq < MaxProducts
    /\ products' = products \cup
          {[id |-> product_seq + 1, provider_id |-> current_provider_id, active |-> 1]}
    /\ product_seq' = product_seq + 1
    /\ UNCHANGED <<srchvars, zipvars, leadvars, provvars>>

----------------------------------------------------------------------------
(* The eligibility engine in multi-provider mode, eligibleProviders *)

\* The fixed default radius of the base match, in miles
BaseRadiusMiles == 20

\* A ZIP is syntactically valid iff it is exactly 5 ASCII digits
SyntacticallyValid(zip) ==
    ~zip.none /\ Len(zip.s) = 5 /\ \A i \in 1..5 : zip.s[i] \in AsciiDigits

\* The stored ZIP is within radius_miles of the input via the distance provider; an
\* absent provider, a raising pair and a missing or NaN distance are no match
WithinMiles(stored, radius_miles, answers, geo) ==
    /\ geo # "None"
    /\ LET km == TryQuery(answers, stored)
       IN  ~IsMissing(km) /\ WithinRadius(km, radius_miles)

\* Base match: the base ZIP equals the input, or is within 20 miles of it
BaseMatch(base_zip, zip, answers, geo) ==
    /\ ~Falsy(base_zip)
    /\ \/ base_zip.s = zip.s
       \/ WithinMiles(base_zip.s, BaseRadiusMiles, answers, geo)

\* Service-area match: some row of the provider equals the input, or is within the
\* row's own radius of it
AreaMatch(provider_id, areas, zip, answers, geo) ==
    \E r \in AreasOf(areas, provider_id) :
        \/ r.zip_code = zip.s
        \/ WithinMiles(r.zip_code, r.radius_miles, answers, geo)

\* eligibleProviders(zip) over a snapshot of the store; the house provider 0 is
\* eligible by the base match on the admin profile's base ZIP
eligibleProvidersInactiveToo(zip, provs, areas, profile_zip, answers, geo) ==
    IF ~SyntacticallyValid(zip) THEN {}
    ELSE {p.id : p \in {q \in provs :
                           \/ BaseMatch(q.base_zip, zip, answers, geo)
                           \/ AreaMatch(q.id, areas, zip, answers, geo)}}
         \cup (IF BaseMatch(profile_zip, zip, answers, geo) THEN {0} ELSE {})
eligibleProviders(zip, provs, areas, profile_zip, answers, geo) ==
    IF ~SyntacticallyValid(zip) THEN {}
    ELSE {p.id : p \in {q \in provs :
                           /\ q.active # 0
                           /\ \/ BaseMatch(q.base_zip, zip, answers, geo)
                              \/ AreaMatch(q.id, areas, zip, answers, geo)}}
         \cup (IF BaseMatch(profile_zip, zip, answers, geo) THEN {0} ELSE {})

\* The ZIPs of the store that a call may hand to the distance provider
StoredZips ==
    {p.base_zip.s : p \in {q \in providers : ~Falsy(q.base_zip)}}
        \cup {r.zip_code : r \in provider_zips}
        \cup (IF Falsy(profile_base_zip) THEN {} ELSE {profile_base_zip.s})

\* Arguments of eligibleProviders
EligInputs == {PyStr(Z8530("1")), PyStr(Z8530("3")), PyStr(ZUnicode), PyStr(<<"8", "5", "3", "0">>)}

\* How the provider may answer for the stored ZIPs and the input at hand; for an input
\* that is rejected, one outcome for all of them
EligBehaviours(zip) ==
    IF SyntacticallyValid(zip) THEN [StoredZips -> Outcomes \ {NoneKm}]
    ELSE {[z \in StoredZips |-> o] : o \in {Km10}}

\* A request handler calls eligibleProviders(zip)
EligibleProvidersCall(zip) ==
    /\ elig.n = 0
    /\ \E answers \in EligBehaviours(zip) :
          elig' = [n |-> 1, zip |-> zip, answers |-> answers,
                   result |-> eligibleProviders(zip, providers, provider_zips,
                                                profile_base_zip, answers, geo_dist)]
    /\ ProviderServed
    /\ UNCHANGED <<providers, provider_seq, profile_base_zip, provider_zips, area_seq, inflight>>
    /\ UNCHANGED <<zipvars, srchvars, products, product_seq, leads, now, origin, doneRec>>

\* The handler returns its response
EligRespond ==
    /\ elig.n > 0
    /\ elig' = NoElig
    /\ UNCHANGED <<providers, provider_seq, profile_base_zip, provider_zips, area_seq, inflight>>
    /\ UNCHANGED <<zipvars, srchvars, products, product_seq, leadvars>>

----------------------------------------------------------------------------
(* Service-area add requests served side by side. Each request runs on its own *)
(* connection; its SELECTs and its INSERT with commit are separate statements,  *)
(* and statements of other requests may run between them.                       *)

\* INSERT INTO provider_zips ... under UNIQUE(provider_id, zip_code): [ok |-> FALSE]
\* stands for sqlite3.IntegrityError, which leaves the table as it was
InsertAreaNoUnique(table, row) == [ok |-> TRUE, table |-> table \cup {row}]
InsertArea(table, row) ==
    IF \E r \in table : r.provider_id = row.provider_id /\ r.zip_code = row.zip_code
    THEN [ok |-> FALSE, table |-> table]
    ELSE [ok |-> TRUE, table |-> table \cup {row}]

\* The other variables of the store and of the run, which a step of an add leaves alone
AddFrame ==
    /\ UNCHANGED <<providers, provider_seq, profile_base_zip, elig>>
    /\ UNCHANGED <<zipvars, srchvars, products, product_seq, leads, now, origin, doneRec>>

\* Worker w takes a POST /provider/service-areas of provider current_provider_id:
\* the form is read and checked, then SELECT COUNT(*) ... and the test of the limit
AreaRequestCount(w, current_provider_id, zipField, radiusField) ==
    LET zip_code      == Strip(FormGet(zipField, <<>>))
        radius_miles  == AreaRadius(radiusField)
        current_count == AreasOf(provider_zips, current_provider_id)
    IN  /\ inflight[w].pc = "idle"
        /\ inflight' =
              [inflight EXCEPT ![w] =
                  IF ~radius_miles.ok THEN Idle("ValueError")
                  ELSE IF zip_code = <<>> \/ Len(zip_code) # 5 \/ ~IsDigit(zip_code)
                  THEN Idle("invalid")
                  ELSE IF AtCap(current_count) THEN Idle("limit")
                  ELSE [pc |-> "exists", provider_id |-> current_provider_id,
                        zip_code |-> zip_code, radius_miles |-> radius_miles.val,
                        outcome |-> "none"]]
        /\ ProviderServed
        /\ UNCHANGED <<provider_zips, area_seq>>
        /\ AddFrame

\* SELECT id FROM provider_zips WHERE provider_id = ? AND zip_code = ?, and its test
AreaRequestExists(w) ==
    LET req == inflight[w]
    IN  /\ req.pc = "exists"
        /\ inflight' =
              [inflight EXCEPT ![w] =
                  IF \E r \in AreasOf(provider_zips, req.provider_id) :
                        r.zip_code = req.zip_code
                  THEN Idle("duplicate")
                  ELSE [req EXCEPT !.pc = "insert"]]
        /\ UNCHANGED <<provider_zips, area_seq, nreq>>
        /\ AddFrame

\* INSERT INTO provider_zips ...; db.commit()
AreaRequestInsert(w) ==
    LET req == inflight[w]
        ins == InsertArea(provider_zips,
                          ServiceArea(area_seq + 1, req.provider_id, req.zip_code,
                                      req.radius_miles))
    IN  /\ req.pc = "insert"
        /\ area_seq < MaxAreaRows
        /\ provider_zips' = ins.table
        /\ area_seq' = IF ins.ok THEN area_seq + 1 ELSE area_seq
        /\ inflight' = [inflight EXCEPT ![w] =
                            Idle(IF ins.ok THEN "added" ELSE "IntegrityError")]
        /\ UNCHANGED nreq
        /\ AddFrame

\* Four service areas of the admin provider, added by four requests served in turn
FourAreas ==
    {ServiceArea(1, 0, Z8530("1"), DefaultRadiusMiles), ServiceArea(2, 0, Z8530("2"), DefaultRadiusMiles),
     ServiceArea(3, 0, Z8530("3"), DefaultRadiusMiles), ServiceArea(4, 0, Z8530("4"), DefaultRadiusMiles)}

\* Values of the form field "zip_code" of the requests that follow
NextAreaZipFields == {PyStr(Z8530("4")), PyStr(Z8530("5")), PyStr(Z8530("6"))}

\* The store after the four adds, no request in progress
ConcInit ==
    /\ NoServices
    /\ providers = {} /\ provider_seq = 0 /\ profile_base_zip = PyNone
    /\ provider_zips = FourAreas /\ area_seq = 4
    /\ elig = NoElig /\ inflight = NoRequests
    /\ geo_dist = "None" /\ zips = {} /\ call = NoCall
    /\ leads = <<>> /\ now = 0 /\ origin = <<>> /\ doneRec = {}
    /\ nreq = 4

ConcNext ==
    \/ \E w \in Workers, p \in SessionProviderIds, z \in NextAreaZipFields,
          r \in UnspecifiedRadiusFields : AreaRequestCount(w, p, z, r)
    \/ \E w \in Workers : AreaRequestExists(w)
    \/ \E w \in Workers : AreaRequestInsert(w)
    \/ \E p \in SessionProviderIds, a \in 1..(MaxAreaRows + 1) :
          provider_service_area_delete(p, a)

ConcSpec == ConcInit /\ [][ConcNext]_vars

\* Values of the form field "zip_code" where a provider submits six ZIPs in turn
ManyAreaZipFields ==
    {PyStr(Z8530("1")), PyStr(Z8530("2")), PyStr(Z8530("3")), PyStr(Z8530("4")), PyStr(Z8530("5")),
     PyStr(Z8530("6")), PyStr(<<"8", "5", "3", "0", "x">>)}

\* The service-area requests of the admin provider's session, served one at a time
AreaInit ==
    /\ NoServices
    /\ NoProviders
    /\ geo_dist = "None" /\ zips = {} /\ call = NoCall
    /\ leads = <<>> /\ now = 0 /\ origin = <<>> /\ doneRec = {} /\ nreq = 0

AreaNext ==
    \/ \E p \in SessionProviderIds, z \in ManyAreaZipFields, r \in UnspecifiedRadiusFields :
          provider_service_areas(p, z, r)
    \/ \E p \in SessionProviderIds, a \in 1..(MaxAreaRows + 1) :
          provider_service_area_delete(p, a)

AreaSpec == AreaInit /\ [][AreaNext]_vars

\* The lead requests of provider 1, who registered and then received a lead through
\* the contact form, with the admin's deactivation and deletion of that provider
KeepInit ==
    /\ NoServices
    /\ providers = {NewProvider(1, Ann)} /\ provider_seq = 1
    /\ profile_base_zip = PyNone
    /\ provider_zips = {} /\ area_seq = 0
    /\ elig = NoElig /\ inflight = NoRequests
    /\ leads \in {<<row>> : row \in ContactLeads}
    /\ origin = [i \in 1..Len(leads) |-> Inserted]
    /\ doneRec = {} /\ now = 0 /\ nreq = 0
    /\ zips = {} /\ geo_dist = "None" /\ call = NoCall

KeepNext ==
    \/ \E i \in LeadIds, a \in LeadActions : provider_lead_action(1, i, a)
    \/ \E i \in LeadIds : provider_schedule_next_week(i)
    \/ \E i \in LeadIds : provider_block_lead_address(i)
    \/ admin_provider_toggle(1)
    \/ admin_provider_delete(1)

KeepSpec == KeepInit /\ [][KeepNext]_vars

\* Two registered providers, the first with a lead from the contact form: their
\* service areas, services and products, and the admin's moderation of them
ModInit ==
    /\ NoServices
    /\ providers = {NewProvider(1, Ann), NewProvider(2, Bob)} /\ provider_seq = 2
    /\ profile_base_zip = PyNone
    /\ provider_zips = {} /\ area_seq = 0
    /\ elig = NoElig /\ inflight = NoRequests
    /\ leads \in {<<row>> : row \in ContactLeads}
    /\ origin = [i \in 1..Len(leads) |-> Inserted]
    /\ doneRec = {} /\ now = 0 /\ nreq = 0
    /\ zips = {} /\ geo_dist = "None" /\ call = NoCall

ModNext ==
    \/ \E p \in 1..2 : provider_service_areas(p, PyStr(Z8530("1")), PyNone)
    \/ \E p \in 0..2, a \in 1..MaxAreaRows : provider_service_area_delete(p, a)
    \/ provider_service_new(1, [title |-> PyStr(<<"a", "x", "b">>),
                                description |-> PyStr(<<>>), active |-> "on"])
    \/ provider_product_new(1)
    \/ \E id \in 1..3 : admin_provider_toggle(id)
    \/ \E id \in 1..3 : admin_provider_delete(id)

ModSpec == ModInit /\ [][ModNext]_vars

SearchInit ==
    /\ NoServices
    /\ NoProviders
    /\ leads = <<>> /\ origin = <<>> /\ doneRec = {} /\ now = 0 /\ nreq = 0
    /\ zips = {} /\ geo_dist = "None" /\ call = NoCall

SearchNext ==
    \/ \E form \in ServiceForms : admin_service_new(form)
    \/ \E qField \in QueryFields : search(qField)
    \/ Tick

SearchSpec == SearchInit /\ [][SearchNext]_vars

EligInit ==
    /\ NoServices
    /\ NoProviders
    /\ geo_dist \in {"None", "GeoDistance"}
    /\ zips = {} /\ call = NoCall
    /\ leads = <<>> /\ now = 0 /\ origin = <<>> /\ doneRec = {} /\ nreq = 0

EligNext ==
    \/ \E e \in EmailFields : provider_register(e)
    \/ \E p \in SessionProviderIds, b \in BaseZipFields : provider_profile(p, b)
    \/ \E p \in SessionProviderIds, z \in AreaZipFields, r \in AreaRadiusFields :
          provider_service_areas(p, z, r)
    \/ \E p \in SessionProviderIds, a \in 1..(MaxAreaRows + 1) :
          provider_service_area_delete(p, a)
    \/ \E p \in 1..(MaxProviders + 1) : admin_provider_toggle(p)
    \/ \E p \in 1..(MaxProviders + 1) : admin_provider_delete(p)
    \/ \E z \in EligInputs : EligibleProvidersCall(z)
    \/ EligRespond

EligSpec == EligInit /\ [][EligNext]_vars

----------------------------------------------------------------------------
(* Properties of is_zip_allowed, checked under ZipSpec *)

Called == call.n >= 1

\* Exactly 5 ASCII digits
FiveAsciiDigits(z) ==
    ~z.none /\ Len(z.s) = 5 /\ \A i \in 1..Len(z.s) : z.s[i] \in AsciiDigits

\* Missing or empty, of a length other than 5, or holding a character that is no digit
MissingShortOrNonDigit(z) ==
    \/ z.none
    \/ z.s = <<>>
    \/ Len(z.s) # 5
    \/ \E i \in 1..Len(z.s) : z.s[i] \notin AsciiDigits \cup NonAsciiDigits

\* C1: is_zip_allowed returns False for every malformed ZIP (missing or empty, length
\* other than 5, or containing a non-digit character), whatever the rows of zips and
\* whether or not a distance provider is configured, and raises nothing.
C1_MalformedIsFalse ==
    (Called /\ MissingShortOrNonDigit(call.zip_code))
        => (~call.out.result /\ ~call.out.raised)

C1_Witness ==
    /\ Called /\ MissingShortOrNonDigit(call.zip_code) /\ ~call.zip_code.none
    /\ Len(call.zip_code.s) = 5
    /\ geo_dist = "GeoDistance" /\ Cardinality(zips) = 2
    /\ \A z \in RowZips(zips) : call.answers[z] = Km10
    /\ ~call.out.result

\* C2: for a valid ZIP that is verbatim the zip of a row, the result is True in every
\* distance-provider situation and the provider is not queried during the call.
C2_ExactMatchShortCircuits ==
    (Called /\ FiveAsciiDigits(call.zip_code) /\ call.zip_code.s \in RowZips(zips))
        => (call.out.result /\ call.out.queried = <<>> /\ ~call.out.raised)

C2_Witness ==
    /\ Called /\ FiveAsciiDigits(call.zip_code) /\ call.zip_code.s \in RowZips(zips)
    /\ geo_dist = "GeoDistance" /\ Cardinality(zips) = 2
    /\ call.rows[2].zip = call.zip_code.s
    /\ \A z \in RowZips(zips) : call.answers[z] = Raises
    /\ call.out.result /\ call.out.queried = <<>>

\* C3: with no distance provider configured, the result for a valid ZIP is True if and
\* only if the ZIP equals the zip of some row; a ZIP merely near a listed ZIP is not
\* servable.
C3_NoProviderExactOnly ==
    (Called /\ geo_dist = "None" /\ FiveAsciiDigits(call.zip_code))
        => (call.out.result <=> call.zip_code.s \in RowZips(zips))

C3_Witness ==
    /\ Called /\ geo_dist = "None"
    /\ call.zip_code = PyStr(Z8530("2"))
    /\ RowZips(zips) = {Z8530("1")}
    /\ call.answers[Z8530("1")] = Km10
    /\ ~call.out.result

\* The distances of the model in millionths of a mile, converted by hand:
\* 10 km = 6.21371 mi, 33 km = 20.505243 mi, KmAt20 = 20 mi
MicroMiles(km) ==
    CASE km = Km10 -> 6213710 [] km = Km33 -> 20505243 [] km = KmAt20 -> 20000000

\* The row is verbatim the input, or the provider gives a number within the row's radius
RowServes(r, z, answers) ==
    \/ r.zip = z.s
    \/ /\ answers[r.zip].kind = "float"
       /\ MicroMiles(answers[r.zip]) <= r.radius_miles * 1000000

\* C4: with a distance provider, the result for a valid ZIP is True if and only if some
\* row equals the input or has a numeric distance km with km * 0.621371 <= radius_miles
\* (inclusive); the result is the same for every order of the rows.
C4_ProximityIffSomeRow ==
    (Called /\ geo_dist = "GeoDistance" /\ FiveAsciiDigits(call.zip_code))
        => /\ call.out.result <=> \E r \in zips : RowServes(r, call.zip_code, call.answers)
           /\ \A rows \in Fetchall(zips) :
                 is_zip_allowed(call.zip_code, rows, call.answers, geo_dist).result
                     = call.out.result

\* The first row read matches at exactly its radius and a closer row follows it
C4_Witness ==
    /\ Called /\ geo_dist = "GeoDistance" /\ call.zip_code = PyStr(Z8530("3"))
    /\ Len(call.rows) = 2
    /\ call.rows[1].radius_miles = 20 /\ call.answers[call.rows[1].zip] = KmAt20
    /\ call.answers[call.rows[2].zip] = Km10
    /\ call.out.result /\ call.out.queried = <<call.rows[1].zip>>

\* C5: a pair for which the provider raises or returns None or NaN makes only its own
\* row non-matching: the later rows are still evaluated, a later row within its radius
\* makes the result True, and no exception reaches the caller.
C5_FailingPairSkipsOnlyItsRow ==
    (Called /\ geo_dist = "GeoDistance" /\ FiveAsciiDigits(call.zip_code)
            /\ call.zip_code.s \notin RowZips(zips))
        => /\ ~call.out.raised
           /\ (\E r \in zips : RowServes(r, call.zip_code, call.answers)) => call.out.result
           /\ (\A i \in 1..Len(call.rows) :
                  (\A j \in 1..i : ~RowServes(call.rows[j], call.zip_code, call.answers))
                      => (i <= Len(call.out.queried) /\ call.out.queried[i] = call.rows[i].zip))

C5_Witness ==
    /\ Called /\ geo_dist = "GeoDistance" /\ call.zip_code = PyStr(Z8530("3"))
    /\ Len(call.rows) = 2
    /\ call.answers[call.rows[1].zip] = Raises
    /\ call.answers[call.rows[2].zip] = Km10
    /\ call.out.result /\ Len(call.out.queried) = 2

\* C6: an input is treated as a valid ZIP if and only if it is exactly 5 ASCII digits;
\* every other string, a 5-character string of non-ASCII digits included, is answered
\* False before the zips table is read.
C6_OnlyFiveAsciiDigitsPass ==
    Called =>
        /\ FiveAsciiDigits(call.zip_code) => call.out.read
        /\ ~FiveAsciiDigits(call.zip_code) => (~call.out.read /\ ~call.out.result)

\* C7: is_zip_allowed is a pure read: a call leaves the store unchanged, and a second
\* call with the same ZIP, the same table and the same provider answers returns the
\* same boolean.
C7_PureRead ==
    /\ [][(call' # call /\ call'.n >= 1) => (zips' = zips /\ leads' = leads)]_vars
    /\ [](call.n = 2 => call.out.result = call.prev)

\* The table was read in another order the second time
C7_Witness ==
    /\ call.n = 2 /\ geo_dist = "GeoDistance" /\ call.zip_code = PyStr(Z8530("3"))
    /\ Len(call.rows) = 2
    /\ call.answers[call.rows[1].zip] = Km10
    /\ call.answers[call.rows[2].zip] = NaN
    /\ call.out.queried = <<call.rows[1].zip>>
    /\ call.out.result /\ call.prev

----------------------------------------------------------------------------
(* Properties of eligibleProviders, checked under EligSpec *)

\* The stored ZIP is verbatim the input, or a distance provider is configured and gives
\* a number within the radius
Serves(stored, radius_miles) ==
    \/ stored = elig.zip.s
    \/ /\ geo_dist = "GeoDistance"
       /\ elig.answers[stored].kind = "float"
       /\ MicroMiles(elig.answers[stored]) <= radius_miles * 1000000

HasBaseZip(p) == ~p.base_zip.none /\ p.base_zip.s # <<>>

BaseCheck(p) == HasBaseZip(p) /\ Serves(p.base_zip.s, 20)

AreaCheck(p) ==
    \E r \in provider_zips : r.provider_id = p.id /\ Serves(r.zip_code, r.radius_miles)

\* C8: eligibleProviders(zip) holds, of the rows of the providers table, exactly the
\* active ones for which a check succeeds: base ZIP equal to the input or within 20
\* miles of it, or a service-area row equal to the input or within the row's radius;
\* an inactive provider is never returned, and a provider with no base ZIP and no
\* service areas is returned for no ZIP.
C8_EligibleProviders ==
    elig.n = 1 =>
        /\ FiveAsciiDigits(elig.zip) =>
              \A p \in providers :
                  p.id \in elig.result <=> (p.active = 1 /\ (BaseCheck(p) \/ AreaCheck(p)))
        /\ elig.result \subseteq {p.id : p \in providers} \cup {0}
        /\ \A p \in providers : p.active = 0 => p.id \notin elig.result
        /\ \A p \in providers :
              (~HasBaseZip(p) /\ AreasOf(provider_zips, p.id) = {}) => p.id \notin elig.result

\* Two providers both match the input: the active one by a base ZIP at exactly 20
\* miles, the deactivated one by a service area equal to the input; only the first is
\* returned
C8_Witness ==
    /\ elig.n = 1 /\ elig.zip = PyStr(Z8530("1")) /\ geo_dist = "GeoDistance"
    /\ \E p, q \in providers :
          /\ p.active = 1 /\ p.base_zip = PyStr(Z8530("2")) /\ elig.answers[Z8530("2")] = KmAt20
          /\ AreasOf(provider_zips, p.id) = {}
          /\ q.active = 0 /\ \E r \in AreasOf(provider_zips, q.id) : r.zip_code = Z8530("1")
          /\ p.id \in elig.result /\ q.id \notin elig.result

----------------------------------------------------------------------------
(* Properties of the service-area requests, checked under AreaSpec *)

\* Provider ids that rows of provider_zips may carry
AreaOwners == 0..MaxProviders

\* C11: with service-area add and delete requests served one at a time, no provider
\* ever has more than 5 rows in provider_zips, and an add attempted while the provider
\* has 5 rows leaves provider_zips unchanged.
C11_AtMostFiveAreas ==
    [][\A p \in AreaOwners :
          /\ Cardinality(AreasOf(provider_zips', p)) <= 5
          /\ Cardinality(AreasOf(provider_zips, p)) >= 5 =>
                \A z \in ManyAreaZipFields, r \in UnspecifiedRadiusFields :
                    provider_service_areas(p, z, r) => provider_zips' = provider_zips]_vars

\* The admin provider holds 5 rows after 6 requests, none of which removed a row
C11_Witness ==
    /\ Cardinality(AreasOf(provider_zips, 0)) = 5
    /\ area_seq = 5
    /\ nreq = 6

\* C14: a service-area add with a valid 5-digit ZIP that the provider does not serve
\* yet, below the limit, with the radius left unspecified (field absent or submitted
\* blank) stores the new row with radius_miles = 10.
C14_UnspecifiedRadiusIsTen ==
    [][\A p \in AreaOwners, z \in ManyAreaZipFields, r \in UnspecifiedRadiusFields :
          ( /\ provider_service_areas(p, z, r)
            /\ FiveAsciiDigits(z)
            /\ Cardinality(AreasOf(provider_zips, p)) < 5
            /\ ~\E row \in AreasOf(provider_zips, p) : row.zip_code = z.s )
          => \E row \in provider_zips' \ provider_zips :
                row.provider_id = p /\ row.zip_code = z.s /\ row.radius_miles = 10]_vars

----------------------------------------------------------------------------
(* Properties of service-area add requests served side by side, checked under *)
(* ConcSpec                                                                    *)

\* C12: when two service-area add requests of one provider run concurrently, each
\* reading the row count and then inserting, the provider never has more than 5 rows
\* in provider_zips.
C12_CapUnderInterleaving ==
    \A p \in AreaOwners : Cardinality(AreasOf(provider_zips, p)) <= 5

\* The add request that worker w is serving finds its ZIP among the provider's rows
AlreadyServed(w) ==
    /\ inflight[w].pc # "idle"
    /\ \E r \in provider_zips :
          r.provider_id = inflight[w].provider_id /\ r.zip_code = inflight[w].zip_code

\* C13: provider_zips never holds two rows with the same (provider_id, zip_code), also
\* when two add requests for the same provider and ZIP interleave, and a step of an
\* add request whose ZIP the provider already serves leaves the table unchanged.
C13_UniqueAreas ==
    [][/\ \A r1, r2 \in provider_zips' :
             (r1.provider_id = r2.provider_id /\ r1.zip_code = r2.zip_code) => r1 = r2
       /\ \A w \in Workers :
             (AlreadyServed(w) /\ inflight'[w] # inflight[w])
                 => provider_zips' = provider_zips]_vars

\* Two requests for the same new ZIP both passed the test for an existing row; the
\* first insert added the row and the second was refused by the store
C13_Witness ==
    /\ inflight[1].outcome = "added" /\ inflight[2].outcome = "IntegrityError"
    /\ Cardinality({r \in provider_zips : r.provider_id = 0 /\ r.zip_code = Z8530("5")}) = 1
    /\ Cardinality(provider_zips) = 5

----------------------------------------------------------------------------
(* Properties of the provider lead actions, checked under LeadSpec *)

\* The recurring marker
RecurringMarker == <<"[RECURRING", " ", "WEEKLY]">>

\* A message prefixed with the marker; a missing message leaves the marker alone
MarkerThen(message) ==
    IF message.none \/ message.s = <<>> THEN PyStr(RecurringMarker)
    ELSE PyStr(RecurringMarker \o <<" ">> \o message.s)

\* What completing lead id must do, between the state before and the state after
CompletionEffect(id) ==
    IF id \notin 1..Len(leads) THEN leads' = leads
    ELSE /\ leads'[id] = [leads[id] EXCEPT !.status = "completed"]
         /\ \A j \in 1..Len(leads) : j # id => leads'[j] = leads[j]
         /\ IF leads[id].recurring = 1
            THEN /\ Len(leads') = Len(leads) + 1
                 /\ LET old == leads[id]
                        new == leads'[Len(leads')]
                    IN  /\ new.status = "scheduled" /\ new.recurring = 1
                        /\ new.name = old.name /\ new.email = old.email
                        /\ new.phone = old.phone /\ new.zip = old.zip
                        /\ new.address = old.address
                        /\ new.message = MarkerThen(old.message)
                        /\ new.created_at = now + 7
            ELSE Len(leads') = Len(leads)

\* C9: completing a lead whose recurring flag is 1 sets its status to completed and
\* inserts exactly one lead with status scheduled, recurring 1, the same name, email,
\* phone, zip and address, the original message prefixed with the recurring marker and
\* a date 7 days after the completion; completing a lead with recurring 0 inserts none.
C9_RecurringCompletion ==
    [][\A id \in LeadIds :
          (nreq' # nreq /\ ~CompletionEffect(id)) =>
              \A p \in ProviderIds : ~provider_lead_action(p, id, "complete")]_vars

Successors(i, by) == {j \in 1..Len(leads) : origin[j] = CopiedFrom(i, by)}

\* A recurring lead with a message was completed a day after the run began and has its
\* successor, and a lead with recurring 0 was completed and has none
C9_Witness ==
    \E i, k \in 1..Len(leads) :
        /\ i \in doneRec /\ leads[i].status = "completed"
        /\ leads[i].message = PyStr(SampleMessage)
        /\ \E j \in Successors(i, "complete") :
              /\ leads[j].status = "scheduled" /\ leads[j].recurring = 1
              /\ leads[j].created_at = 8
              /\ leads[j].message.s = RecurringMarker \o <<" ">> \o SampleMessage
        /\ k \notin doneRec /\ leads[k].status = "completed" /\ leads[k].recurring = 0
        /\ Successors(k, "complete") = {}

\* C10: over any sequence of provider lead actions, 'complete' submitted again for a
\* completed lead included, a lead completed with recurring = 1 has exactly one
\* successor lead created by completion.
C10_ExactlyOneSuccessor ==
    \A i \in doneRec : Cardinality(Successors(i, "complete")) = 1

\* The values of a lead's status
LeadStatuses == {"new", "scheduled", "completed", "rejected"}

\* C15: in every reachable state every lead's status is one of new, scheduled,
\* completed, rejected; no provider lead action and no sample-data insert writes
\* another value.
C15_StatusInFour ==
    \A i \in 1..Len(leads) : leads[i].status \in LeadStatuses

\* A completed lead with its scheduled successor, and a lead that was put off to
\* tomorrow and then rejected
C15_Witness ==
    \E i, j, k \in 1..Len(leads) :
        /\ leads[i].status = "completed" /\ origin[j] = CopiedFrom(i, "complete")
        /\ leads[j].status = "scheduled"
        /\ leads[k].status = "rejected" /\ leads[k].follow_up_date # NullDate

----------------------------------------------------------------------------
(* Properties of the leads table under lead requests and provider moderation, *)
(* checked under KeepSpec                                                      *)

\* C16: no lead is ever removed: over provider lead actions (complete, reject,
\* tomorrow, weekly, schedule-next, block-address) and the deactivation or deletion of
\* the provider, every lead row that existed still exists and the number of leads
\* never decreases.
C16_LeadsNeverRemoved ==
    [][/\ Len(leads') >= Len(leads)
       /\ \A i \in 1..Len(leads) :
             /\ i \in 1..Len(leads')
             /\ leads'[i].name = leads[i].name /\ leads'[i].email = leads[i].email
             /\ leads'[i].provider_id = leads[i].provider_id
             /\ leads'[i].created_at = leads[i].created_at]_vars

\* Provider 1 was deleted; its lead, completed, and the successor are still there
C16_Witness ==
    /\ providers = {} /\ provider_seq = 1
    /\ Len(leads) >= 2
    /\ leads[1].provider_id = 1 /\ leads[1].status = "completed"
    /\ origin[2] = CopiedFrom(1, "complete")

----------------------------------------------------------------------------
(* Properties of the search, checked under SearchSpec *)

ActiveServices == {s \in services : s.active = 1}

\* The query is non-empty after trimming and holds no word
NoWords(qField) ==
    /\ QueryText(qField) # <<>>
    /\ FindAllWords(Lower(QueryText(qField))) = <<>>

\* C17: a query that is non-empty after trimming but tokenizes to zero words gives an
\* empty result with count 0 and issues no store query.
C17_NoWordsNoResults ==
    [][\A qField \in QueryFields :
          (srch'.field = qField /\ search(qField) /\ NoWords(qField)) =>
              /\ srch'.results = <<>> /\ srch'.count = 0
              /\ srch'.statements = <<>>]_vars

\* The query is empty or whitespace only
Blank(qField) == qField.none \/ \A i \in 1..Len(qField.s) : qField.s[i] \in Whitespace

ContainsNoCase(value, t) ==
    \E i \in 0..(Len(value) - Len(t)) :
        \A k \in 1..Len(t) : Lower(value)[i + k] = Lower(t)[k]

\* C19: with the full-text query failing, the search returns exactly the active
\* services whose title or description contains, case-insensitively, at least one
\* expanded token as a substring, no inactive service, newest first.
C19_FallbackExactlyContaining ==
    [][\A qField \in QueryFields :
          (srch'.field = qField /\ search(qField) /\ srch'.expanded # {}) =>
              LET wanted == {s \in services : /\ s.active = 1
                                              /\ \E t \in srch'.expanded :
                                                    \/ ContainsNoCase(s.title, t)
                                                    \/ ContainsNoCase(s.description, t)}
                  got == srch'.results
              IN  /\ {got[i] : i \in 1..Len(got)} = wanted
                  /\ Len(got) = Cardinality(wanted)
                  /\ \A i \in 1..Len(got) : got[i].active = 1
                  /\ \A i, j \in 1..Len(got) :
                        i < j => got[i].created_at >= got[j].created_at]_vars

TokenSet(qField) ==
    LET tokens == FindAllWords(Lower(QueryText(qField)))
    IN  {tokens[i] : i \in 1..Len(tokens)}

LawnCare == {Word.lawn, Word.care, Word.yard, Word.mow, Word.mowing, Word.landscape, Word.landscaping}

\* C20: the expanded token set is the lower-cased word tokens of the query together
\* with the fixed synonyms of "lawn", "clean" and "repair", one level and in one
\* direction only; "lawn care" expands to lawn, care, yard, mow, mowing, landscape,
\* landscaping, and "yard" to itself alone.
C20_ExpandedTokens ==
    [][\A qField \in QueryFields :
          (srch'.field = qField /\ search(qField) /\ QueryText(qField) # <<>>) =>
              /\ srch'.expanded =
                    TokenSet(qField)
                    \cup (IF Word.lawn \in TokenSet(qField)
                          THEN {Word.yard, Word.mow, Word.mowing, Word.landscape, Word.landscaping} ELSE {})
                    \cup (IF Word.clean \in TokenSet(qField)
                          THEN {Word.cleaning, Word.housekeeping, Word.maid} ELSE {})
                    \cup (IF Word.repair \in TokenSet(qField) THEN {Word.fix, Word.handyman} ELSE {})
              /\ qField = PyStr(Word.lawn \o <<" ">> \o Word.care) => srch'.expanded = LawnCare
              /\ qField = PyStr(<<"Y", "a", "r", "d">>) => srch'.expanded = {Word.yard}]_vars

\* "lawn care" was searched and found the service titled "Lawn"; "Yard" was not
\* expanded when searched before
C20_Witness ==
    /\ srch.served /\ srch.q = Word.lawn \o <<" ">> \o Word.care
    /\ srch.expanded = LawnCare
    /\ \E i \in 1..Len(srch.results) : srch.results[i].title = <<"L", "a", "w", "n">>

----------------------------------------------------------------------------
(* Properties of the admin ZIP management, checked under ZipSpec *)

\* The radius the admin asked for: the submitted integer where it is one of the four
\* allowed values, 20 for a missing field, a text that is no integer, or another value
NormalisedRadius(radiusField) ==
    IF radiusField.none THEN 20
    ELSE LET p == IntParse(radiusField.s)
         IN  IF p.ok /\ p.val \in {20, 40, 60, 80} THEN p.val ELSE 20

\* C21: after any admin ZIP add, update and delete requests every row of zips has
\* radius_miles in {20, 40, 60, 80}; a missing, non-integer or other radius is stored
\* as 20, and adding a listed ZIP keeps one row for it, with the submitted radius.
C21_RadiusNormalised ==
    [][/\ \A r \in zips' : r.radius_miles \in {20, 40, 60, 80}
       /\ \A r1, r2 \in zips' : r1.zip = r2.zip => r1 = r2
       /\ zips' # zips =>
            /\ \A zipField \in ZipFields, radiusField \in RadiusFields :
                  (admin_zips(zipField, radiusField) /\ FullMatchD5(Strip(FormGet(zipField, <<>>)))) =>
                      {r \in zips' : r.zip = Strip(FormGet(zipField, <<>>))}
                          = {[zip |-> Strip(FormGet(zipField, <<>>)),
                              radius_miles |-> NormalisedRadius(radiusField)]}
            /\ \A z \in RowZips(zips), radiusField \in RadiusFields :
                  admin_zip_update(z, radiusField) =>
                      \E r \in zips' : r.zip = z /\ r.radius_miles = NormalisedRadius(radiusField)]_vars

\* Two listed ZIPs, one with the default radius and one with a submitted radius
C21_Witness ==
    zips = {[zip |-> Z8530("1"), radius_miles |-> 20], [zip |-> Z8530("2"), radius_miles |-> 60]}


\* The ZIP the admin typed, surrounding whitespace aside
TypedZip(zipField) == Strip(FormGet(zipField, <<>>))

ValidZip(z) == Len(z) = 5 /\ \A i \in 1..5 : z[i] \in AsciiDigits

\* Empty, of a length other than 5, or holding a character that is no digit
MalformedZip(z) == Len(z) # 5 \/ \E i \in 1..Len(z) : z[i] \notin AsciiDigits \cup NonAsciiDigits

\* C22: admin changes take effect on the next check. An add of a valid ZIP lists it,
\* a listed ZIP stays listed until it is deleted and an unlisted one stays unlisted
\* until it is added, an add of a malformed ZIP leaves the table alone, and every
\* is_zip_allowed call answers True for a listed valid ZIP and, with no distance
\* provider, False for an unlisted one.
C22_AdminChangesTakeEffect ==
    [][/\ zips' # zips \/ call' = call =>
            /\ \A zipField \in ZipFields, radiusField \in RadiusFields :
                  admin_zips(zipField, radiusField) =>
                      /\ ValidZip(TypedZip(zipField)) => TypedZip(zipField) \in RowZips(zips')
                      /\ MalformedZip(TypedZip(zipField)) => zips' = zips
            /\ \A z \in StorableZips : admin_zip_delete(z) => RowZips(zips') = RowZips(zips) \ {z}
            /\ \A z \in RowZips(zips) \ RowZips(zips') : admin_zip_delete(z)
            /\ \A z \in RowZips(zips') \ RowZips(zips) :
                  \E zipField \in ZipFields, radiusField \in RadiusFields :
                      admin_zips(zipField, radiusField) /\ TypedZip(zipField) = z
       /\ (call'.n > 0 /\ ~call'.zip_code.none /\ ValidZip(call'.zip_code.s)) =>
            /\ call'.zip_code.s \in RowZips(zips') => call'.out.result
            /\ (geo_dist' = "None" /\ call'.zip_code.s \notin RowZips(zips')) => ~call'.out.result]_vars

\* With no distance provider, a check of a ZIP added second answers True
C22_Witness ==
    /\ geo_dist = "None" /\ call.n = 1
    /\ call.zip_code = PyStr(Z8530("2")) /\ call.out.result
    /\ RowZips(zips) = {Z8530("1"), Z8530("2")}

----------------------------------------------------------------------------
(* Properties of the moderation of providers and of what they own, checked  *)
(* under ModSpec                                                            *)

\* The providers table with the active flag of the one provider flipped
Flipped(table, provider_id) ==
    {IF p.id = provider_id THEN [p EXCEPT !.active = 1 - p.active] ELSE p : p \in table}

\* C23: admin_provider_toggle is a soft delete. It flips the active flag of the target
\* provider and nothing else: the rest of its row, its services, products, service
\* areas and leads and every other provider stay; a second toggle restores the flag,
\* and an id that does not exist changes nothing.
C23_ToggleFlipsOnlyTheFlag ==
    [][\A id \in 1..3 :
          (providers' # providers \/ nreq' # nreq) /\ admin_provider_toggle(id) =>
              /\ providers' = Flipped(providers, id)
              /\ Flipped(providers', id) = providers
              /\ {p.id : p \in providers'} = {p.id : p \in providers}
              /\ services' = services /\ products' = products
              /\ provider_zips' = provider_zips /\ leads' = leads
              /\ (~\E p \in providers : p.id = id) => providers' = providers]_vars

\* Provider 1 is deactivated and still has its service, product, service area and
\* lead; provider 2 is active
C23_Witness ==
    /\ \E p \in providers : p.id = 1 /\ p.active = 0
    /\ \E p \in providers : p.id = 2 /\ p.active = 1
    /\ \E s \in services : s.provider_id = 1
    /\ \E r \in products : r.provider_id = 1
    /\ \E r \in provider_zips : r.provider_id = 1
    /\ Len(leads) = 1 /\ leads[1].provider_id = 1

----------------------------------------------------------------------------
(* Properties of the ownership of leads, checked under LeadSpec *)

\* C24: the successor lead inserted when a recurring lead is completed, and the one
\* inserted by schedule-next, carries the provider_id of the original lead.
C24_SuccessorKeepsProvider ==
    \A i \in 1..Len(leads) :
        origin[i].of # 0 => leads[i].provider_id = leads[origin[i].of].provider_id

\* C25: provider_lead_action changes only leads of the acting provider: a request of
\* a provider on a lead that another provider owns leaves the leads table unchanged.
C25_OnlyOwnLeads ==
    [][\A p \in ProviderIds, i \in LeadIds, a \in LeadActions :
          (nreq' # nreq /\ provider_lead_action(p, i, a)
             /\ Exists(leads, i) /\ leads[i].provider_id # p) => leads' = leads]_vars

----------------------------------------------------------------------------
(* Properties of service areas under moderation, checked under ModSpec *)

\* C26: provider_service_area_delete removes at most the one row of provider_zips
\* with the requested id and the acting provider's provider_id; a request that names
\* another provider's area or an id that does not exist leaves the table unchanged.
C26_DeleteOnlyOwnArea ==
    [][\A p \in 0..2, a \in 1..MaxAreaRows :
          (nreq' # nreq /\ provider_service_area_delete(p, a)) =>
              /\ provider_zips' \subseteq provider_zips
              /\ \A r \in provider_zips \ provider_zips' : r.id = a /\ r.provider_id = p
              /\ Cardinality(provider_zips \ provider_zips') <= 1
              /\ (~\E r \in provider_zips : r.id = a /\ r.provider_id = p) =>
                    provider_zips' = provider_zips]_vars

\* Both providers added an area; the first one's is deleted, the second one's is there
C26_Witness ==
    /\ area_seq = 2
    /\ \E r \in provider_zips : provider_zips = {r} /\ r.provider_id = 2
    /\ Cardinality(providers) = 2

----------------------------------------------------------------------------
(* Properties of the services table, checked under SearchSpec *)

\* C27: no provider_id, the admin provider 0 included, owns two active services whose
\* titles are equal ignoring case.
C27_NoDuplicateActiveTitles ==
    \A s1, s2 \in services :
        (s1.id # s2.id /\ s1.provider_id = s2.provider_id /\ s1.active = 1 /\ s2.active = 1)
            => Lower(s1.title) # Lower(s2.title)

----------------------------------------------------------------------------
(* Referential integrity, checked under ModSpec *)

\* C28: after a provider is deleted no row of services, provider_zips or products has
\* its provider_id: every such row belongs to an existing provider or to the admin
\* provider 0.
C28_NoRowsOfDeletedProviders ==
    \A r \in services \cup provider_zips \cup products :
        r.provider_id = 0 \/ \E p \in providers : p.id = r.provider_id

----------------------------------------------------------------------------
(* Properties of single lead requests, checked under LeadSpec *)

\* C29: the status update and the successor insert of a 'complete' request are
\* committed together: when the request fails between the two writes or before the
\* commit, neither the status change nor the new lead is visible afterwards.
C29_CompleteIsAtomic ==
    [][\A i \in LeadIds, at \in {"after UPDATE", "after INSERT"} :
          (nreq' # nreq /\ provider_lead_action_fails(i, at)) =>
              /\ leads' = leads
              /\ Exists(leads, i) => leads'[i].status = leads[i].status]_vars

\* A recurring lead that is still new after two requests, with no successor
C29_Witness ==
    /\ nreq = 2 /\ Len(leads) = 1 /\ doneRec = {}
    /\ leads[1].recurring = 1 /\ leads[1].status = "new"

\* The leads table with the recurring flag of one lead flipped
FlippedRecurring(table, lead_id) ==
    [i \in 1..Len(table) |->
        IF i = lead_id THEN [table[i] EXCEPT !.recurring = 1 - table[i].recurring]
        ELSE table[i]]

\* C30: the 'weekly' action changes only the recurring flag of the target lead: its
\* other fields and every other lead stay, no lead is inserted, a second 'weekly'
\* restores the flag; an action value other than complete, reject, tomorrow or weekly
\* leaves the leads table unchanged.
C30_WeeklyFlipsOnlyTheFlag ==
    [][\A i \in LeadIds :
          LET flipped == /\ leads' = FlippedRecurring(leads, i)
                         /\ FlippedRecurring(leads', i) = leads
                         /\ Len(leads') = Len(leads)
          IN  /\ (nreq' # nreq /\ ~flipped) =>
                    \A p \in ProviderIds : ~provider_lead_action(p, i, "weekly")
              /\ (nreq' # nreq /\ leads' # leads) =>
                    \A p \in ProviderIds :
                        \A a \in LeadActions \ {"complete", "reject", "tomorrow", "weekly"} :
                            ~provider_lead_action(p, i, a)]_vars

\* After one 'weekly' request the lead is recurring and otherwise as the contact form
\* stored it
C30_Witness ==
    /\ nreq = 1 /\ Len(leads) = 1
    /\ \E row \in ContactLeads : leads[1] = [row EXCEPT !.recurring = 1]

====
